---------------------------- MODULE Spec2Model ----------------------------
(***************************************************************************)
(* KMRL document question answering: the interactive Streamlit front end  *)
(* (web_app.py) and the batch console demonstration (kmrl_rag_engine.py). *)
(*                                                                         *)
(* A text is a sequence of tokens.  A long literal of the source is one   *)
(* token (or a few: the context literal keeps one token per document);    *)
(* text typed by the user, answered by the service or carried by an       *)
(* exception is a sequence of word tokens.  A role is the sequence of its *)
(* characters, so that str.capitalize() is computed and not assumed.      *)
(* Non-ASCII decoration of the message literals (emoji) is left out of    *)
(* the tokens.                                                            *)
(***************************************************************************)
EXTENDS Integers, Sequences, FiniteSets, TLC

VARIABLES
    mode,              \* which program runs: "interactive", "direct", "batch"
    pc,                \* position of the single thread of control
    messages,          \* st.session_state.messages (the transcript)
    submissions,       \* number of chat inputs accepted so far
    user_query,        \* argument of the running get_cited_answer call
    history,           \* argument of the running web_app.get_cited_answer call
    full_rag_payload,  \* local of get_cited_answer (full_prompt in the engine)
    response_text,     \* value returned by web_app.get_cited_answer
    inflight,          \* requests issued to the service and not yet answered
    sent,              \* every request issued to the generation service
    calls,             \* one record per finished get_cited_answer call
    testIdx,           \* batch: index of the next demonstration query
    stdout,            \* batch: the texts printed to the console
    escaped,           \* an exception left get_cited_answer
    credential         \* the secret store / environment holds GEMINI_API_KEY

vars == <<mode, pc, messages, submissions, user_query, history,
          full_rag_payload, response_text, inflight, sent, calls,
          testIdx, stdout, escaped, credential>>

----------------------------------------------------------------------------
(* Bounds of the model *)

MaxSubmissions == 3     \* chat inputs of one interactive session
MaxHistory == 2         \* length of the history list of a direct call

(* Inputs *)

Queries == { <<"Q1">>, <<"Q2", "\n", "more">> }
Answers == { <<"A1">>, <<"A2", "[DOCUMENT ID: POLICY-HR-32B]">> }
FaultTexts == { <<"503", "UNAVAILABLE">> }

NoText == <<>>

----------------------------------------------------------------------------
(* Texts and the string operations the code uses *)

LOWER == << "a","b","c","d","e","f","g","h","i","j","k","l","m",
            "n","o","p","q","r","s","t","u","v","w","x","y","z" >>
UPPER == << "A","B","C","D","E","F","G","H","I","J","K","L","M",
            "N","O","P","Q","R","S","T","U","V","W","X","Y","Z" >>

ToUpper(c) == IF \E i \in 1..26 : LOWER[i] = c
              THEN UPPER[CHOOSE i \in 1..26 : LOWER[i] = c] ELSE c
ToLower(c) == IF \E i \in 1..26 : UPPER[i] = c
              THEN LOWER[CHOOSE i \in 1..26 : UPPER[i] = c] ELSE c

(* An identity in place of str.capitalize(): roles rendered as stored. *)
capitalize_asis(s) == s

(* str.capitalize(): first character upper-cased, the rest lower-cased. *)
capitalize(s) ==
    [i \in 1..Len(s) |-> IF i = 1 THEN ToUpper(s[i]) ELSE ToLower(s[i])]

RECURSIVE join(_, _)
(* sep.join(parts) *)
join(sep, parts) ==
    IF parts = <<>> THEN <<>>
    ELSE IF Len(parts) = 1 THEN parts[1]
    ELSE parts[1] \o sep \o join(sep, Tail(parts))

USER == <<"u","s","e","r">>
ASSISTANT == <<"a","s","s","i","s","t","a","n","t">>

Turn(role, content) == [role |-> role, content |-> content]

(* A turn can be rendered when it carries both keys; msg['role'] or       *)
(* msg['content'] raises KeyError otherwise.                              *)
WellFormed(msg) == {"role", "content"} \subseteq DOMAIN msg

(* f"{msg['role'].capitalize()}: {msg['content']}" *)
RenderTurn(msg) == capitalize(msg.role) \o <<": ">> \o msg.content

----------------------------------------------------------------------------
(* web_app.py: literals *)

KMRL_DOCUMENTS_CONTEXT ==
    << "\n", "[KMRL_DOCUMENTS_CONTEXT_START]",
       "DOCUMENT ID: SOP-MAINT-401", "DOCUMENT ID: POLICY-HR-32B",
       "DOCUMENT ID: PROC-SIGNAL-005", "DOCUMENT ID: ENG-INC-022",
       "[KMRL_DOCUMENTS_CONTEXT_END]", "\n" >>

SYSTEM_INSTRUCTION == << "You are the **KMRL Document Intelligence Assistant** ..." >>

CONTEXT_LABEL == "--- KMRL DOCUMENTS CONTEXT ---"
HISTORY_LABEL == "--- CONVERSATION HISTORY ---"
QUERY_LABEL == "--- CURRENT USER QUERY ---"
DIRECTIVE ==
    "Based ONLY on the CONTEXT and considering the HISTORY, please answer the CURRENT USER QUERY. You MUST cite the Document ID for every fact."

MODEL_NAME == "gemini-2.5-flash"

CONFIG_ERROR ==
    << "**Configuration Error:** The GEMINI_API_KEY is missing from Streamlit Secrets. Please configure it to run the app." >>
ApiErrorText(e) ==
    << "An API error occurred: " >> \o e \o << ". Please check your key and permissions." >>
UnexpectedErrorText(e) == << "An unexpected error occurred: " >> \o e

(* The payload without the just-appended last turn of the history. *)
Payload_droplast(q, h) ==
    SYSTEM_INSTRUCTION \o <<"\n", "\n">>
    \o <<CONTEXT_LABEL, "\n">> \o KMRL_DOCUMENTS_CONTEXT \o <<"\n", "\n">>
    \o <<HISTORY_LABEL, "\n">>
    \o join(<<"\n">>, [i \in 1..(Len(h) - 1) |-> RenderTurn(h[i])])
    \o <<"\n", "\n", QUERY_LABEL, "\n">> \o q \o <<"\n", "\n">>
    \o <<DIRECTIVE>>

(* The payload with the history block after the current query. *)
Payload_historylast(q, h) ==
    SYSTEM_INSTRUCTION \o <<"\n", "\n">>
    \o <<CONTEXT_LABEL, "\n">> \o KMRL_DOCUMENTS_CONTEXT \o <<"\n", "\n">>
    \o <<QUERY_LABEL, "\n">> \o q \o <<"\n", "\n">>
    \o <<HISTORY_LABEL, "\n">>
    \o join(<<"\n">>, [i \in 1..Len(h) |-> RenderTurn(h[i])])
    \o <<"\n", "\n">>
    \o <<DIRECTIVE>>

(* full_rag_payload of web_app.get_cited_answer *)
Payload(q, h) ==
    SYSTEM_INSTRUCTION \o <<"\n", "\n">>
    \o <<CONTEXT_LABEL, "\n">> \o KMRL_DOCUMENTS_CONTEXT \o <<"\n", "\n">>
    \o <<HISTORY_LABEL, "\n">>
    \o join(<<"\n">>, [i \in 1..Len(h) |-> RenderTurn(h[i])])
    \o <<"\n", "\n", QUERY_LABEL, "\n">> \o q \o <<"\n", "\n">>
    \o <<DIRECTIVE>>

(* The except clauses of web_app.get_cited_answer, in their order. *)
Handle(exc, e) ==
    IF exc = "KeyError" THEN CONFIG_ERROR
    ELSE IF exc = "APIError" THEN ApiErrorText(e)
    ELSE UnexpectedErrorText(e)

----------------------------------------------------------------------------
(* kmrl_rag_engine.py: literals *)

Engine_KMRL_DOCUMENTS_CONTEXT ==
    << "\n", "[KMRL_DOCUMENTS_CONTEXT_START]",
       "DOCUMENT ID: SOP-MAINT-401", "DOCUMENT ID: POLICY-HR-32B",
       "DOCUMENT ID: PROC-SIGNAL-005",
       "[KMRL_DOCUMENTS_CONTEXT_END]", "\n" >>

Engine_SYSTEM_INSTRUCTION == << "You are the KMRL Document Intelligence System. ..." >>

TEST_QUERIES == << <<"TEST_QUERY_1">>, <<"TEST_QUERY_2">>, <<"TEST_QUERY_3">> >>

Engine_KEY_ERROR ==
    << "\n", "[ERROR] GEMINI_API_KEY environment variable not set. Please set it and retry." >>

(* full_prompt of kmrl_rag_engine.get_cited_answer *)
Engine_Prompt(q) ==
    <<"KMRL Documents Context:", "\n">> \o Engine_KMRL_DOCUMENTS_CONTEXT \o <<"\n", "\n">>
    \o <<"User Query:", "\n">> \o q \o <<"\n", "\n">>
    \o <<"Please provide a comprehensive and fully cited answer based ONLY on the context above.">>


(* The except clauses around generate_content in the engine. *)
Engine_Handle(exc, e) ==
    IF exc = "APIError" THEN << "An API error occurred: " >> \o e
    ELSE << "An unexpected error occurred: " >> \o e

----------------------------------------------------------------------------
(* Inputs of a direct call of web_app.get_cited_answer(user_query, history): *)
(* any list of turns, a turn without its content key included.              *)

Contents == { <<"Q1">>, <<"A1">> }
Turns == { Turn(r, c) : r \in {USER, ASSISTANT}, c \in Contents }
             \cup { [role |-> USER] }
Histories == UNION { [1..n -> Turns] : n \in 0..MaxHistory }

Request(n, contents, instruction) ==
    [n |-> n, model |-> MODEL_NAME, contents |-> contents,
     system_instruction |-> instruction]

(* What is known of a get_cited_answer call when it ends: whether the     *)
(* credential was there, where and what was raised, what came out.        *)
Call(n, cred, stage, exc, result) ==
    [n |-> n, cred |-> cred, stage |-> stage, exc |-> exc, result |-> result]

CallIndex == IF mode = "interactive" THEN submissions
             ELSE IF mode = "batch" THEN testIdx ELSE 1

(* Everything but the program that runs and the arguments of the call. *)
Fresh ==
    /\ messages = <<>>
    /\ submissions = 0
    /\ full_rag_payload = NoText
    /\ response_text = NoText
    /\ inflight = 0
    /\ sent = <<>>
    /\ calls = <<>>
    /\ testIdx = 1
    /\ stdout = <<>>
    /\ escaped = FALSE
    /\ credential \in BOOLEAN

(* One of the two programs starts: the Streamlit script with an empty     *)
(* transcript, or the console demonstration at its first query.           *)
Init ==
    /\ mode \in {"interactive", "batch"}
    /\ Fresh
    /\ pc = IF mode = "interactive" THEN "idle" ELSE "b_main"
    /\ user_query = NoText
    /\ history = <<>>

(* web_app.get_cited_answer(user_query, history) is called on its own. *)
CallInit ==
    /\ mode = "direct"
    /\ Fresh
    /\ pc = "client"
    /\ user_query \in Queries
    /\ history \in Histories

----------------------------------------------------------------------------
(* web_app.py *)

(* get_cited_answer returns text: by return response.text or by one of    *)
(* the except clauses.                                                    *)
Web_Return(text, stage, exc) ==
    /\ response_text' = text
    /\ calls' = Append(calls, Call(CallIndex, credential, stage, exc, text))
    /\ pc' = "return"

(* The chat input is accepted and no user turn is stored before the call. *)
Web_Submit_nouserturn ==
    /\ mode = "interactive"
    /\ pc = "idle"
    /\ submissions < MaxSubmissions
    /\ \E q \in Queries :
         /\ user_query' = q
         /\ history' = messages
    /\ credential' \in BOOLEAN
    /\ submissions' = submissions + 1
    /\ pc' = "client"
    /\ UNCHANGED <<mode, messages, full_rag_payload, response_text, inflight,
                   sent, calls, testIdx, stdout, escaped>>

(* if user_input: the user turn is appended, then get_cited_answer is     *)
(* called with the input and the transcript itself (the same list).       *)
Web_Submit ==
    /\ mode = "interactive"
    /\ pc = "idle"
    /\ submissions < MaxSubmissions
    /\ \E q \in Queries :
         /\ messages' = Append(messages, Turn(USER, q))
         /\ user_query' = q
         /\ history' = messages'
    /\ credential' \in BOOLEAN
    /\ submissions' = submissions + 1
    /\ pc' = "client"
    /\ UNCHANGED <<mode, full_rag_payload, response_text, inflight, sent,
                   calls, testIdx, stdout, escaped>>

(* The key is looked up leniently (None when missing) and the call goes   *)
(* on to the service without it.                                          *)
Web_BuildClient_lenient ==
    /\ mode \in {"interactive", "direct"}
    /\ pc = "client"
    /\ \/ \E e \in FaultTexts :
            Web_Return(Handle("Exception", e), "client", "Exception")
       \/ /\ pc' = "compose"
          /\ UNCHANGED <<response_text, calls>>
    /\ UNCHANGED <<mode, credential, messages, submissions, user_query, history,
                   full_rag_payload, inflight, sent, testIdx, stdout, escaped>>

(* client = genai.Client(api_key=st.secrets["GEMINI_API_KEY"]): the       *)
(* lookup raises KeyError without the key; building the client may fail.  *)
Web_BuildClient ==
    /\ mode \in {"interactive", "direct"}
    /\ pc = "client"
    /\ \/ /\ ~credential
          /\ Web_Return(Handle("KeyError", NoText), "client", "KeyError")
       \/ /\ credential
          /\ \E e \in FaultTexts :
               Web_Return(Handle("Exception", e), "client", "Exception")
       \/ /\ credential
          /\ pc' = "compose"
          /\ UNCHANGED <<response_text, calls>>
    /\ UNCHANGED <<mode, credential, messages, submissions, user_query, history,
                   full_rag_payload, inflight, sent, testIdx, stdout, escaped>>

(* full_rag_payload = ...; rendering a turn without one of its keys       *)
(* raises KeyError.                                                       *)
Web_Compose ==
    /\ mode \in {"interactive", "direct"}
    /\ pc = "compose"
    /\ IF \A i \in 1..Len(history) : WellFormed(history[i])
       THEN /\ full_rag_payload' = Payload(user_query, history)
            /\ pc' = "request"
            /\ UNCHANGED <<response_text, calls>>
       ELSE /\ Web_Return(Handle("KeyError", NoText), "compose", "KeyError")
            /\ UNCHANGED full_rag_payload
    /\ UNCHANGED <<mode, credential, messages, submissions, user_query, history,
                   inflight, sent, testIdx, stdout, escaped>>

(* A failed request is issued once more before the fault is handled. *)
Web_Request_retry ==
    /\ mode \in {"interactive", "direct"}
    /\ pc \in {"request", "await"}
    /\ sent' = Append(sent, Request(CallIndex, full_rag_payload, NoText))
    /\ inflight' = inflight + 1
    /\ pc' = "await"
    /\ UNCHANGED <<mode, credential, messages, submissions, user_query, history,
                   full_rag_payload, response_text, calls, testIdx, stdout,
                   escaped>>

(* client.models.generate_content(model=..., contents=full_rag_payload):  *)
(* the request leaves.                                                    *)
Web_Request ==
    /\ mode \in {"interactive", "direct"}
    /\ pc = "request"
    /\ sent' = Append(sent, Request(CallIndex, full_rag_payload, NoText))
    /\ inflight' = inflight + 1
    /\ pc' = "await"
    /\ UNCHANGED <<mode, credential, messages, submissions, user_query, history,
                   full_rag_payload, response_text, calls, testIdx, stdout,
                   escaped>>

(* The session stops at a failed call: the error is shown, not stored. *)
Web_Respond_stop ==
    /\ mode \in {"interactive", "direct"}
    /\ pc = "await"
    /\ inflight' = inflight - 1
    /\ \/ \E a \in Answers : Web_Return(a, "none", "none")
       \/ \E exc \in {"APIError", "KeyError", "Exception"}, e \in FaultTexts :
            /\ response_text' = Handle(exc, e)
            /\ calls' = Append(calls, Call(CallIndex, credential, "request", exc,
                                           Handle(exc, e)))
            /\ pc' = "stopped"
    /\ UNCHANGED <<mode, credential, messages, submissions, user_query, history,
                   full_rag_payload, sent, testIdx, stdout, escaped>>

(* generate_content returns (return response.text) or raises, and the     *)
(* except clauses turn what it raises into the returned text.             *)
Web_Respond ==
    /\ mode \in {"interactive", "direct"}
    /\ pc = "await"
    /\ inflight' = inflight - 1
    /\ \/ \E a \in Answers : Web_Return(a, "none", "none")
       \/ \E exc \in {"APIError", "KeyError", "Exception"}, e \in FaultTexts :
            Web_Return(Handle(exc, e), "request", exc)
    /\ UNCHANGED <<mode, credential, messages, submissions, user_query, history,
                   full_rag_payload, sent, testIdx, stdout, escaped>>

(* The assistant turn replaces the transcript's last turn. *)
Web_AppendAssistant_overwrite ==
    /\ mode = "interactive"
    /\ pc = "return"
    /\ messages' = [messages EXCEPT ![Len(messages)] =
                        Turn(ASSISTANT, response_text)]
    /\ pc' = "idle"
    /\ UNCHANGED <<mode, credential, submissions, user_query, history, full_rag_payload,
                   response_text, inflight, sent, calls, testIdx, stdout,
                   escaped>>

(* st.markdown(response_text), then the assistant turn is appended. *)
Web_AppendAssistant ==
    /\ mode = "interactive"
    /\ pc = "return"
    /\ messages' = Append(messages, Turn(ASSISTANT, response_text))
    /\ pc' = "idle"
    /\ UNCHANGED <<mode, credential, submissions, user_query, history, full_rag_payload,
                   response_text, inflight, sent, calls, testIdx, stdout,
                   escaped>>

----------------------------------------------------------------------------
(* kmrl_rag_engine.py *)

(* get_cited_answer returns to the main block after printing. *)
Engine_Return(printed, stage, exc, result) ==
    /\ stdout' = stdout \o printed
    /\ calls' = Append(calls, Call(CallIndex, credential, stage, exc, result))
    /\ testIdx' = testIdx + 1
    /\ pc' = "b_main"

(* get_cited_answer(TEST_QUERY_i): the query is printed. *)
Engine_Call ==
    /\ mode = "batch"
    /\ pc = "b_main"
    /\ testIdx <= Len(TEST_QUERIES)
    /\ user_query' = TEST_QUERIES[testIdx]
    /\ stdout' = Append(stdout, <<"\n", "QUERY: ">> \o TEST_QUERIES[testIdx])
    /\ pc' = "b_client"
    /\ UNCHANGED <<mode, credential, messages, submissions, history, full_rag_payload,
                   response_text, inflight, sent, calls, testIdx, escaped>>

(* try: client = genai.Client()  except ValueError: print, return.        *)
(* Anything else genai.Client() raises is not caught.                     *)
Engine_BuildClient ==
    /\ mode = "batch"
    /\ pc = "b_client"
    /\ \/ /\ ~credential
          /\ Engine_Return(<<Engine_KEY_ERROR>>, "client", "ValueError",
                           Engine_KEY_ERROR)
          /\ UNCHANGED escaped
       \/ /\ credential
          /\ escaped' = TRUE
          /\ calls' = Append(calls, Call(CallIndex, credential, "client", "Exception",
                                         NoText))
          /\ pc' = "b_crashed"
          /\ UNCHANGED <<stdout, testIdx>>
       \/ /\ credential
          /\ pc' = "b_request"
          /\ UNCHANGED <<stdout, calls, testIdx, escaped>>
    /\ UNCHANGED <<mode, credential, messages, submissions, user_query, history,
                   full_rag_payload, response_text, inflight, sent>>

(* full_prompt = ...; generate_content(model, contents=full_prompt,       *)
(* config=GenerateContentConfig(system_instruction=SYSTEM_INSTRUCTION))   *)
Engine_Request ==
    /\ mode = "batch"
    /\ pc = "b_request"
    /\ full_rag_payload' = Engine_Prompt(user_query)
    /\ sent' = Append(sent, Request(CallIndex, full_rag_payload',
                                    Engine_SYSTEM_INSTRUCTION))
    /\ inflight' = inflight + 1
    /\ pc' = "b_await"
    /\ UNCHANGED <<mode, credential, messages, submissions, user_query, history,
                   response_text, calls, testIdx, stdout, escaped>>

(* The response is printed between its two rules, or the fault is. *)
Engine_Respond ==
    /\ mode = "batch"
    /\ pc = "b_await"
    /\ inflight' = inflight - 1
    /\ \/ \E a \in Answers :
            Engine_Return(<< <<"\n", "--- KMRL SYSTEM RESPONSE (CITED) ---">>, a,
                             <<"------------------------------------", "\n">> >>,
                          "none", "none", a)
       \/ \E exc \in {"APIError", "KeyError", "Exception"}, e \in FaultTexts :
            Engine_Return(<<Engine_Handle(exc, e)>>, "request", exc,
                          Engine_Handle(exc, e))
    /\ UNCHANGED <<mode, credential, messages, submissions, user_query, history,
                   full_rag_payload, response_text, sent, escaped>>

Next ==
    \/ Web_Submit
    \/ Web_BuildClient
    \/ Web_Compose
    \/ Web_Request
    \/ Web_Respond
    \/ Web_AppendAssistant
    \/ Engine_Call
    \/ Engine_BuildClient
    \/ Engine_Request
    \/ Engine_Respond

Spec == Init /\ [][Next]_vars

(* The programs, and the client function called on its own as well. *)
SpecCall == (Init \/ CallInit) /\ [][Next]_vars

----------------------------------------------------------------------------
(* Vocabulary of the properties *)

(* pat occurs in text at position p *)
OccursAt(text, pat, p) ==
    /\ p >= 1
    /\ p + Len(pat) - 1 <= Len(text)
    /\ \A i \in 1..Len(pat) : text[p + i - 1] = pat[i]

(* the first position >= start where pat occurs in text, 0 when none *)
FindFrom(text, pat, start) ==
    LET hits == { p \in start..(Len(text) - Len(pat) + 1) : OccursAt(text, pat, p) }
    IN  IF hits = {} THEN 0 ELSE CHOOSE p \in hits : \A r \in hits : p <= r

RECURSIVE AfterInOrder(_, _, _)
(* The texts of pats occur in text one after the other, without overlap,  *)
(* from position start on: the position after the last of them (taking    *)
(* each at its first possible place), 0 when they do not.                 *)
AfterInOrder(text, pats, start) ==
    IF pats = <<>> THEN start
    ELSE LET p == FindFrom(text, pats[1], start)
         IN  IF p = 0 THEN 0
             ELSE AfterInOrder(text, Tail(pats), p + Len(pats[1]))

FirstIndex(text, tok) == CHOOSE p \in 1..Len(text) :
    text[p] = tok /\ \A r \in 1..(p - 1) : text[r] # tok
LastIndex(text, tok) == CHOOSE p \in 1..Len(text) :
    text[p] = tok /\ \A r \in (p + 1)..Len(text) : text[r] # tok
Has(text, tok) == \E p \in 1..Len(text) : text[p] = tok

(* The history portion of a prompt: what stands between the line of the   *)
(* history label and the blank line before the current-query label.       *)
HistoryBlock(prompt) ==
    SubSeq(prompt, FirstIndex(prompt, HISTORY_LABEL) + 2,
                   LastIndex(prompt, QUERY_LABEL) - 3)

(* The rendering "<Role>: <content>" of a turn, as the specification      *)
(* words it.                                                              *)
Line(turn) ==
    (IF turn.role = USER THEN <<"U","s","e","r">>
     ELSE <<"A","s","s","i","s","t","a","n","t">>) \o <<": ">> \o turn.content

Lines(turns) == [i \in 1..Len(turns) |-> Line(turns[i])]

RECURSIVE Flat(_)
(* lines, one per line *)
Flat(lines) ==
    IF lines = <<>> THEN <<>>
    ELSE IF Len(lines) = 1 THEN lines[1]
    ELSE lines[1] \o <<"\n">> \o Flat(Tail(lines))

Interactive == mode = "interactive"
InCall == pc \in {"client", "compose", "request", "await", "return"}
Failed(c) == c.exc # "none"

(* the current-query block of submission n, up to the end of the prompt *)
QueryBlock(q) == <<QUERY_LABEL, "\n">> \o q \o <<"\n", "\n", DIRECTIVE>>
QueryBlockStart(prompt, q) == Len(prompt) - Len(QueryBlock(q)) + 1

----------------------------------------------------------------------------
(* C1: the transcript starts empty and only grows by appending; whenever  *)
(* the session is idle after k submissions, failed or not, it holds 2k    *)
(* turns, user and assistant alternating, the 2j-th being what call j     *)
(* returned; a turn once appended stays at its position unchanged.        *)
C1_TranscriptAppendOnly ==
    /\ (Interactive => messages = <<>>)
    /\ [](Interactive =>
            /\ pc = "idle" => Len(messages) = 2 * submissions
            /\ InCall => Len(messages) = 2 * submissions - 1
            /\ \A i \in 1..Len(messages) :
                 /\ DOMAIN messages[i] = {"role", "content"}
                 /\ messages[i].role = IF i % 2 = 1 THEN USER ELSE ASSISTANT
                 /\ i % 2 = 0 => messages[i].content = calls[i \div 2].result)
    /\ [][ /\ Len(messages') >= Len(messages)
           /\ Len(messages') <= Len(messages) + 1
           /\ \A i \in 1..Len(messages) : messages'[i] = messages[i] ]_vars

C1_Witness ==
    /\ Interactive
    /\ pc = "idle"
    /\ submissions = 2
    /\ Len(messages) = 4
    /\ Failed(calls[1])
    /\ ~Failed(calls[2])

(* C2, as stated: the history portion of the prompt of submission n is    *)
(* the transcript through turn 2(n-1).                                    *)
C2_HistoryIsEarlierExchanges ==
    Interactive =>
      \A j \in 1..Len(sent) :
        HistoryBlock(sent[j].contents)
          = Flat(Lines(SubSeq(messages, 1, 2 * (sent[j].n - 1))))

(* C2, amended: the history portion of the prompt of submission n is the *)
(* transcript through turn 2n-1: the turns of the n-1 earlier exchanges   *)
(* followed by the user turn of submission n itself.                      *)
C2_HistoryIsTranscriptAtCall ==
    Interactive =>
      \A j \in 1..Len(sent) :
        HistoryBlock(sent[j].contents)
          = Flat(Lines(SubSeq(messages, 1, 2 * sent[j].n - 1)))

C2_Witness ==
    /\ Interactive
    /\ \E j \in 1..Len(sent) : sent[j].n = 2 /\ pc = "await"

(* C3: the prompt of submission n holds the rendering of every turn       *)
(* appended before submission n, in transcript order, and all of them     *)
(* before the current-query block that carries the text of submission n.  *)
C3_EarlierTurnsInOrderBeforeQuery ==
    Interactive =>
      \A j \in 1..Len(sent) :
        LET n == sent[j].n
            prompt == sent[j].contents
            q == messages[2 * n - 1].content
            after == AfterInOrder(prompt, Lines(SubSeq(messages, 1, 2 * (n - 1))), 1)
        IN  /\ OccursAt(prompt, QueryBlock(q), QueryBlockStart(prompt, q))
            /\ after # 0
            /\ after <= QueryBlockStart(prompt, q)

C3_Witness ==
    /\ Interactive
    /\ \E j \in 1..Len(sent) :
         /\ sent[j].n = 3
         /\ messages[1].content # messages[3].content
         /\ Failed(calls[2])

(* C4: no fault leaves get_cited_answer: every call that met a fault      *)
(* (missing credential, API fault, any other fault) ended normally with   *)
(* a message to display.                                                  *)
C4_NoFaultEscapes ==
    /\ ~escaped
    /\ \A k \in 1..Len(calls) : Failed(calls[k]) => calls[k].result # NoText

(* C5: a call made without a credential ends with the credential-missing  *)
(* message of its variant, and no request of that call was issued.        *)
C5_NoCredentialNoRequest ==
    /\ \A k \in 1..Len(calls) :
         ~calls[k].cred =>
            /\ calls[k].result
                 = (IF mode = "batch" THEN Engine_KEY_ERROR ELSE CONFIG_ERROR)
            /\ mode = "batch" => \E i \in 1..Len(stdout) : stdout[i] = Engine_KEY_ERROR
            /\ mode = "interactive" /\ pc = "idle" =>
                 messages[2 * calls[k].n].content = CONFIG_ERROR
            /\ mode = "direct" => response_text = CONFIG_ERROR
            /\ \A j \in 1..Len(sent) : sent[j].n # calls[k].n
    /\ (~credential /\ (InCall \/ pc \in {"b_client", "b_request", "b_await"})) =>
         /\ inflight = 0
         /\ \A j \in 1..Len(sent) : sent[j].n # CallIndex

C5_WitnessBatch ==
    /\ mode = "batch"
    /\ testIdx = 3
    /\ pc = "b_main"
    /\ ~calls[1].cred
    /\ ~calls[2].cred
    /\ sent = <<>>

C5_Witness ==
    /\ Interactive
    /\ pc = "idle"
    /\ submissions = 2
    /\ calls[1].cred
    /\ ~calls[2].cred
    /\ Len(sent) = 1

(* C6, as stated: after any sequence of submissions the number of         *)
(* requests issued equals the number of submissions.                      *)
C6_OneRequestPerSubmission ==
    (Interactive /\ pc = "idle") => Len(sent) = submissions

(* C6, amended: a submission issues at most one request, and exactly one  *)
(* when the credential lookup and the construction of the client          *)
(* succeeded (none otherwise); no request is issued twice, at most one    *)
(* is in flight, and while one is in flight no further submission has     *)
(* been taken up.                                                         *)
C6_AtMostOneRequestPerSubmission ==
    Interactive =>
      /\ inflight \in {0, 1}
      /\ inflight = 1 <=> pc = "await"
      /\ \A i, j \in 1..Len(sent) : sent[i].n = sent[j].n => i = j
      /\ \A j \in 1..Len(sent) : sent[j].n \in 1..submissions
      /\ \A k \in 1..Len(calls) :
           (calls[k].stage = "client") <=> (\A j \in 1..Len(sent) : sent[j].n # k)
      /\ pc = "idle" =>
           /\ Len(calls) = submissions
           /\ Len(sent) = Cardinality({ k \in 1..submissions : calls[k].stage # "client" })
      /\ pc = "await" =>
           /\ Len(calls) = submissions - 1
           /\ sent[Len(sent)].n = submissions
           /\ Len(messages) = 2 * submissions - 1

C6_Witness ==
    /\ Interactive
    /\ pc = "idle"
    /\ submissions = 3
    /\ Len(sent) = 2
    /\ calls[2].stage = "client"
    /\ calls[3].exc = "APIError"

(* The five parts of a prompt in their order: persona first, then the     *)
(* labeled context, the labeled history with one rendered line per turn,  *)
(* the labeled current query, and the directive last.                     *)
FiveParts(prompt, persona, context, turns, q) ==
    /\ OccursAt(prompt, persona, 1)
    /\ AfterInOrder(prompt,
                    <<persona, <<CONTEXT_LABEL>>, context, <<HISTORY_LABEL>>, Flat(Lines(turns)),
                      <<QUERY_LABEL>>, q, <<DIRECTIVE>>>>, 1) = Len(prompt) + 1
    /\ HistoryBlock(prompt) = Flat(Lines(turns))
    /\ turns = <<>> =>
         \A i \in 1..Len(HistoryBlock(prompt)) : HistoryBlock(prompt)[i] \notin {"U", "A", ": "}

(* The request r of the web application carries the five parts, for the   *)
(* history and the query its call was given.                              *)
WebPromptOK(r) ==
    FiveParts(r.contents, SYSTEM_INSTRUCTION, KMRL_DOCUMENTS_CONTEXT,
              IF Interactive THEN SubSeq(messages, 1, 2 * r.n - 1) ELSE history,
              IF Interactive THEN messages[2 * r.n - 1].content ELSE user_query)

(* C7, as stated: the prompt of every request, of either variant, is      *)
(* the five parts in their order.                                         *)
C7_EveryPromptFiveParts ==
    \A j \in 1..Len(sent) :
      IF mode = "batch"
      THEN /\ Has(sent[j].contents, HISTORY_LABEL) /\ Has(sent[j].contents, QUERY_LABEL)
           /\ FiveParts(sent[j].contents, Engine_SYSTEM_INSTRUCTION,
                        Engine_KMRL_DOCUMENTS_CONTEXT, <<>>, TEST_QUERIES[sent[j].n])
      ELSE WebPromptOK(sent[j])

(* C7, amended: in web_app.py the prompt of every request is the five     *)
(* parts in their order, an empty history giving an empty history block;  *)
(* in kmrl_rag_engine.py the prompt is a labeled context block, a labeled *)
(* query block and a closing directive, without persona and without       *)
(* history block, the persona travelling as the request's system          *)
(* instruction.                                                           *)
C7_WebPromptFiveParts ==
    \A j \in 1..Len(sent) :
      IF mode = "batch"
      THEN LET prompt == sent[j].contents
           IN  /\ AfterInOrder(prompt,
                     << <<"KMRL Documents Context:">>, Engine_KMRL_DOCUMENTS_CONTEXT,
                        <<"User Query:">>, TEST_QUERIES[sent[j].n],
                        <<"Please provide a comprehensive and fully cited answer based ONLY on the context above.">> >>,
                     1) = Len(prompt) + 1
               /\ OccursAt(prompt, <<"KMRL Documents Context:">>, 1)
               /\ ~Has(prompt, Engine_SYSTEM_INSTRUCTION[1])
               /\ ~Has(prompt, HISTORY_LABEL)
               /\ sent[j].system_instruction = Engine_SYSTEM_INSTRUCTION
      ELSE /\ WebPromptOK(sent[j])
           /\ sent[j].system_instruction = NoText

C7_Witness ==
    /\ mode = "direct"
    /\ history = <<>>
    /\ Len(sent) = 1
    /\ pc = "return"

C7_WitnessTurns ==
    /\ mode = "direct"
    /\ Len(history) = 2
    /\ history[1].role = USER /\ history[2].role = ASSISTANT
    /\ Len(sent) = 1

(* C8: a failed call does not end the session: its message is stored as   *)
(* an ordinary assistant turn, the session goes on to accept the next     *)
(* submission, and every later prompt carries the message as an           *)
(* "Assistant: ..." line of its history.                                  *)
C8_FailureKeptAndReplayed ==
    Interactive =>
      /\ pc \in {"idle", "client", "compose", "request", "await", "return"}
      /\ pc = "return" => ENABLED Web_AppendAssistant
      /\ (pc = "idle" /\ submissions < MaxSubmissions) => ENABLED Web_Submit
      /\ \A k \in 1..Len(calls) :
           Failed(calls[k]) =>
             /\ (pc = "idle" \/ k < submissions) =>
                  messages[2 * k] = Turn(ASSISTANT, calls[k].result)
             /\ \A j \in 1..Len(sent) :
                  sent[j].n > k =>
                    \E p \in 1..Len(sent[j].contents) :
                      /\ OccursAt(sent[j].contents,
                                  <<"\n">> \o <<"A","s","s","i","s","t","a","n","t">>
                                    \o <<": ">> \o calls[k].result \o <<"\n">>, p)
                      /\ p > FirstIndex(sent[j].contents, HISTORY_LABEL)
                      /\ p < LastIndex(sent[j].contents, QUERY_LABEL)

C8_Witness ==
    /\ Interactive
    /\ submissions = 3
    /\ pc = "idle"
    /\ ~calls[1].cred
    /\ calls[2].exc = "APIError"
    /\ calls[3].exc = "none"
    /\ Len(sent) = 2

(* C9: the user turn is in the transcript before the prompt is composed   *)
(* and the composer is given that transcript: the history of every call   *)
(* is non-empty and ends with the user turn of the current query, and     *)
(* the prompt carries the query twice, as its last history line and in    *)
(* the current-query block.                                               *)
C9_QueryTwice ==
    Interactive =>
      /\ InCall =>
           /\ history # <<>>
           /\ history = messages \/ pc = "return"
           /\ history[Len(history)] = Turn(USER, user_query)
      /\ \A j \in 1..Len(sent) :
           LET q == messages[2 * sent[j].n - 1].content
               prompt == sent[j].contents
               tail == <<"U","s","e","r">> \o <<": ">> \o q
                         \o <<"\n", "\n", QUERY_LABEL, "\n">> \o q
                         \o <<"\n", "\n", DIRECTIVE>>
           IN  /\ OccursAt(prompt, tail, Len(prompt) - Len(tail) + 1)
               /\ prompt[Len(prompt) - Len(tail)] \in {"\n"}

C9_Witness ==
    /\ Interactive
    /\ pc = "request"
    /\ submissions = 2
    /\ Len(sent) = 1
    /\ user_query = messages[1].content

(* C10: the configuration-error message is returned only when the         *)
(* credential is missing: with the credential present, a fault raised     *)
(* later in the call is reported as an API or an unexpected error.        *)
C10_ConfigErrorOnlyWithoutCredential ==
    mode \in {"interactive", "direct"} =>
      \A k \in 1..Len(calls) : calls[k].result = CONFIG_ERROR => ~calls[k].cred

=============================================================================
